---- MODULE Spec2Model ----
(***************************************************************************)
(* State-machine model of powerline.lib.config.ConfigLoader: the two       *)
(* registries (watched, missing), the cache (loaded), the registry lock,   *)
(* the synchronous load() path and the worker loop run().                  *)
(*                                                                         *)
(* Threads: the worker (run), two caller threads using the registration    *)
(* API, one thread calling load(), the host (set_pl, set_interval,         *)
(* shutdown_event.set()) and the file system (FileChange).                 *)
(***************************************************************************)
EXTENDS Naturals, Sequences, FiniteSets, TLC

\* ------------------------------------------------------------------ bounds
\* registration calls, load() calls and file changes in one behaviour
MaxOps == 3
\* the same, in the behaviours checked for liveness and in those with callbacks that
\* call the registration API
MaxFairOps == 2

\* ----------------------------------------------------------- input domains
Paths == {"p1", "p2"}
Funcs == {"f1", "f2"}
Keys == {"k1", "k2"}
Conds == {"c1", "c2"}
MissingFuncs == {"g1"}
Pairs == Conds \X MissingFuncs
Callers == {"t1", "t2"}
Contents == {"v1", "v2", "bad"}
None == "None"

VARIABLES
    pl,             \* self.pl: TRUE iff an error sink is attached
    interval,       \* self.interval: TRUE iff not None
    shutdown_event, \* self.shutdown_event.is_set()
    lock,           \* self.lock: TRUE iff held
    watched,        \* self.watched: path -> set of functions
    missing,        \* self.missing: key -> set of (condition_function, function)
    loaded,         \* self.loaded: path -> value
    watching,       \* paths the watcher was told to watch
    changed,        \* paths with a change the watcher has not yet reported
    content,        \* what the loader finds at each path ("bad": it raises)
    cpc,            \* per caller thread: "idle" or the registry operation it is inside
    lpc, lpath, lr, \* the thread inside load(): position, argument, value to return
    wpc,            \* position of the worker thread inside run()
    toload,         \* run(): local list toload
    todoPaths, curPath, todoFuncs, \* run(): iteration state of phase 1
    todoKeys, curKey, todoPairs,   \* run(): iteration state of phase 2
    nops,           \* calls and file changes so far, capped by MaxOps
    reported,       \* phases 1-2: paths for which the watcher answered true
    called,         \* phases 1-2: invocations of each change callback
    answers,        \* phase 2: what each condition function call did
    found,          \* phase 2: arguments each pair's callback was invoked with
    recorded,       \* phase 3: the paths that were in toload when the phase began
    attempted,      \* phase 3: paths the loader was called for
    failed,         \* phase 3: paths whose reload failed
    logged,         \* current phase: number of messages passed to the sink
    evicted,        \* paths fully unregistered and not passed to load/register since
    waited,         \* entries, as (key, pair), that answered falsy since registered
    lastcall        \* what the last callback invoked by the worker did ("reenter": it or
                    \* a condition function called the registration API)

cfgVars == <<pl, interval, shutdown_event>>
regVars == <<watched, missing, watching, waited>>
envVars == <<changed, content>>
loadVars == <<lpc, lpath, lr>>
iterVars == <<todoPaths, curPath, todoFuncs, todoKeys, curKey, todoPairs>>
histVars == <<reported, called, answers, found, recorded, attempted, failed, logged,
              lastcall>>
workVars == <<wpc, toload, iterVars>>
vars == <<cfgVars, regVars, envVars, loadVars, workVars, histVars, lock, loaded, cpc, nops,
          evicted>>

\* ------------------------------------------------------------ dict helpers
EmptyDict == [x \in {} |-> {}]

Drop(d, ks) == [x \in (DOMAIN d) \ ks |-> d[x]]

Put(d, k, v) == [x \in (DOMAIN d) \cup {k} |-> IF x = k THEN v ELSE d[x]]

Range(s) == {s[i] : i \in DOMAIN s}

\* defaultdict(set): d[k].add(v)
AddTo(d, k, v) == Put(d, k, (IF k \in DOMAIN d THEN d[k] ELSE {}) \cup {v})

\* an unregister that forgets to pop the keys it has emptied
PruneKeepKeys(d, removed) == [k \in DOMAIN d |-> d[k] \ removed]

\* for k, s in list(d.items()): s -= removed; if not s: d.pop(k)
Prune(d, removed) ==
    LET keep == {k \in DOMAIN d : d[k] \ removed # {}}
    IN [k \in keep |-> d[k] \ removed]

\* the keys that Prune drops
Pruned(d, removed) == (DOMAIN d) \ DOMAIN Prune(d, removed)

\* the entries self.missing can get, as (key, (condition_function, function)):
\* callers register c2 for either key and c1 for k1 only
Entries == (Keys \X Pairs) \ {<<"k2", <<"c1", "g1">>>>}

\* (key, pair) is in the dictionary d
PendingIn(d, e) == e[1] \in DOMAIN d /\ e[2] \in d[e[1]]

NoCalls == [x \in Paths \X Funcs |-> 0]
NoAnswers == [x \in Keys \X Pairs |-> <<>>]
NoFound == [x \in Keys \X Pairs |-> <<>>]

\* ------------------------------------------------------------------- Init
\* __init__: no sink, no interval, empty registries and cache, lock free
Init ==
    /\ pl = FALSE
    /\ interval = FALSE
    /\ shutdown_event = FALSE
    /\ lock = FALSE
    /\ watched = EmptyDict
    /\ missing = EmptyDict
    /\ loaded = EmptyDict
    /\ watching = {}
    /\ changed = {}
    /\ content = [p \in Paths |-> "v1"]
    /\ cpc = [t \in Callers |-> "idle"]
    /\ lpc = "idle" /\ lpath = None /\ lr = None
    /\ wpc = "idle"
    /\ toload = <<>>
    /\ todoPaths = {} /\ curPath = None /\ todoFuncs = {}
    /\ todoKeys = {} /\ curKey = None /\ todoPairs = {}
    /\ nops = 0
    /\ reported = {} /\ called = NoCalls /\ answers = NoAnswers /\ found = NoFound
    /\ recorded = {} /\ attempted = {} /\ failed = {} /\ logged = 0
    /\ evicted = {}
    /\ waited = {}
    /\ lastcall = "ok"

\* ---------------------------------------------------------- configuration
\* set_pl(pl): the host attaches its logger
set_pl ==
    /\ ~pl
    /\ pl' = TRUE
    /\ UNCHANGED <<interval, shutdown_event, regVars, envVars, loadVars, workVars,
                   histVars, lock, loaded, cpc, nops, evicted>>

\* set_interval(interval): a number, or None again
set_interval ==
    /\ interval' = ~interval
    /\ UNCHANGED <<pl, shutdown_event, regVars, envVars, loadVars, workVars,
                   histVars, lock, loaded, cpc, nops, evicted>>

\* shutdown_event.set() by the host process
SetShutdown ==
    /\ ~shutdown_event
    /\ shutdown_event' = TRUE
    /\ UNCHANGED <<pl, interval, regVars, envVars, loadVars, workVars,
                   histVars, lock, loaded, cpc, nops, evicted>>

\* ------------------------------------------------------------ environment
\* The file at p is rewritten; a watched path gets a pending change.
FileChange(p, c) ==
    /\ nops < MaxOps
    /\ c # content[p]
    /\ nops' = nops + 1
    /\ content' = [content EXCEPT ![p] = c]
    /\ changed' = IF p \in watching THEN changed \cup {p} ELSE changed
    /\ UNCHANGED <<cfgVars, regVars, loadVars, workVars, histVars, lock, loaded, cpc, evicted>>

\* self.watcher(path): has path changed since the last check (consumes the change)
WatcherCheck(p) == p \in changed

WatcherAfter(p) == changed \ {p}

\* self._load(path): the value, or "bad" when the loader raises
LoaderResult(p) == content[p]

\* --------------------------------------------------------- registration API
RegOps == {"register", "register_missing", "unregister_functions", "unregister_missing"}

\* t1 is the thread that manages watched files, t2 the one that manages missing ones
CallerOps(t) ==
    IF t = "t1" THEN {"register", "unregister_functions"}
    ELSE {"register_missing", "unregister_missing"}

\* a registration API that goes ahead without waiting for the lock
AcquireUnlocked(t, op) ==
    /\ cpc[t] = "idle"
    /\ op \in CallerOps(t)
    /\ nops < MaxOps
    /\ op = "unregister_functions" => watched # EmptyDict
    /\ op = "unregister_missing" => missing # EmptyDict
    /\ lock' = TRUE
    /\ cpc' = [cpc EXCEPT ![t] = op]
    /\ nops' = nops + 1
    /\ UNCHANGED <<cfgVars, regVars, envVars, loadVars, workVars, histVars, loaded, evicted>>

\* with self.lock: (entry of any of the four operations); the unregister calls are
\* given functions that are registered
Acquire(t, op) ==
    /\ cpc[t] = "idle"
    /\ op \in CallerOps(t)
    /\ nops < MaxOps
    /\ op = "unregister_functions" => watched # EmptyDict
    /\ op = "unregister_missing" => missing # EmptyDict
    /\ ~lock
    /\ lock' = TRUE
    /\ cpc' = [cpc EXCEPT ![t] = op]
    /\ nops' = nops + 1
    /\ UNCHANGED <<cfgVars, regVars, envVars, loadVars, workVars, histVars, loaded, evicted>>

\* a register that does not tell the watcher
register_unwatched(t, function, path) ==
    /\ cpc[t] = "register"
    /\ watched' = AddTo(watched, path, function)
    /\ evicted' = evicted \ {path}
    /\ lock' = FALSE
    /\ cpc' = [cpc EXCEPT ![t] = "idle"]
    /\ UNCHANGED <<cfgVars, missing, waited, watching, envVars, loadVars, workVars, histVars,
                   loaded, nops>>

\* with self.lock: self.watched[path].add(function); self.watcher.watch(path)
register(t, function, path) ==
    /\ cpc[t] = "register"
    /\ watched' = AddTo(watched, path, function)
    /\ watching' = watching \cup {path}
    /\ evicted' = evicted \ {path}
    /\ lock' = FALSE
    /\ cpc' = [cpc EXCEPT ![t] = "idle"]
    /\ UNCHANGED <<cfgVars, missing, waited, envVars, loadVars, workVars, histVars, loaded,
                   nops>>

register_missing(t, condition_function, function, key) ==
    /\ cpc[t] = "register_missing"
    /\ <<key, <<condition_function, function>>>> \in Entries
    /\ missing' = AddTo(missing, key, <<condition_function, function>>)
    /\ waited' = waited \ {<<key, <<condition_function, function>>>>}
    /\ lock' = FALSE
    /\ cpc' = [cpc EXCEPT ![t] = "idle"]
    /\ UNCHANGED <<cfgVars, watched, watching, envVars, loadVars, workVars, histVars, loaded,
                   nops, evicted>>

unregister_functions(t, removed_functions) ==
    /\ cpc[t] = "unregister_functions"
    /\ removed_functions \subseteq UNION {watched[p] : p \in DOMAIN watched}
    /\ watched' = Prune(watched, removed_functions)
    /\ loaded' = Drop(loaded, Pruned(watched, removed_functions))
    /\ evicted' = evicted \cup Pruned(watched, removed_functions)
    /\ lock' = FALSE
    /\ cpc' = [cpc EXCEPT ![t] = "idle"]
    /\ UNCHANGED <<cfgVars, missing, waited, watching, envVars, loadVars, workVars, histVars,
                   nops>>

unregister_missing(t, removed_functions) ==
    /\ cpc[t] = "unregister_missing"
    /\ removed_functions \subseteq UNION {missing[k] : k \in DOMAIN missing}
    /\ missing' = Prune(missing, removed_functions)
    /\ waited' = {e \in waited : e[2] \notin removed_functions}
    /\ lock' = FALSE
    /\ cpc' = [cpc EXCEPT ![t] = "idle"]
    /\ UNCHANGED <<cfgVars, watched, watching, envVars, loadVars, workVars, histVars, loaded,
                   nops, evicted>>

\* ------------------------------------------------------------------ load()
\* try: return self.loaded[path]   /   except KeyError: (go on to the loader)
CacheHit(path) == path \in DOMAIN loaded

\* ... except KeyError: r = self._load(path)  (a loader error reaches the caller)
LoadLookup(path) ==
    /\ lpc = "idle"
    /\ nops < MaxOps
    /\ nops' = nops + 1
    /\ lpath' = path
    /\ evicted' = evicted \ {path}
    /\ IF CacheHit(path)
       THEN lpc' = "hit" /\ lr' = loaded[path]
       ELSE IF LoaderResult(path) = "bad"
            THEN lpc' = "raised" /\ UNCHANGED lr
            ELSE lpc' = "store" /\ lr' = LoaderResult(path)
    /\ UNCHANGED <<cfgVars, regVars, envVars, workVars, histVars, lock, loaded, cpc>>

\* a load() that caches whether or not an interval is configured
StoreAlways == TRUE

\* a load() that never caches
StoreDisabled == FALSE

\* if self.interval is not None: self.loaded[path] = r   /   return r
StoreEnabled == interval

LoadStore ==
    /\ lpc = "store"
    /\ loaded' = IF StoreEnabled THEN Put(loaded, lpath, lr) ELSE loaded
    /\ evicted' = evicted \ {lpath}
    /\ lpc' = "idle" /\ lpath' = None /\ lr' = None
    /\ UNCHANGED <<cfgVars, regVars, envVars, workVars, histVars, lock, cpc, nops>>

\* return (the cached value) / the loader's exception reaches the caller of load()
LoadReturn ==
    /\ lpc \in {"hit", "raised"}
    /\ lpc' = "idle" /\ lpath' = None /\ lr' = None
    /\ UNCHANGED <<cfgVars, regVars, envVars, workVars, histVars, lock, loaded, cpc, nops,
                   evicted>>

\* ------------------------------------------------------------ exception()
\* an exception() that re-raises whatever self.pl is
AlwaysRaises == TRUE

\* an exception() that swallows the error whatever self.pl is
NeverRaises == FALSE

\* if self.pl: self.pl.exception(...)  else: raise
exception_raises == ~pl

\* --------------------------------------------------------------- run()
\* the thread is started and enters run()
Start ==
    /\ wpc = "idle"
    /\ wpc' = "top"
    /\ UNCHANGED <<cfgVars, regVars, envVars, loadVars, histVars, lock, loaded, cpc, nops,
                   evicted, toload, iterVars>>

\* a loop condition that does not look at the event
IgnoresShutdown == interval

\* while self.interval is not None and not self.shutdown_event.is_set():
LoopCondition == interval /\ ~shutdown_event

\* an exception leaves run(): its locals are gone
Crash ==
    /\ wpc' = "crashed"
    /\ toload' = <<>>
    /\ todoPaths' = {} /\ curPath' = None /\ todoFuncs' = {}
    /\ todoKeys' = {} /\ curKey' = None /\ todoPairs' = {}

\* the loop condition, then toload = []
WTop ==
    /\ wpc = "top"
    /\ wpc' = IF LoopCondition THEN "lock1" ELSE "stopped"
    /\ UNCHANGED <<cfgVars, regVars, envVars, loadVars, histVars, lock, loaded, cpc, nops,
                   evicted, toload, iterVars>>

\* with self.lock: (phase 1)   for path, functions in self.watched.items():
WLock1 ==
    /\ wpc = "lock1"
    /\ ~lock
    /\ lock' = TRUE
    /\ wpc' = "phase1"
    /\ todoPaths' = DOMAIN watched
    /\ UNCHANGED <<cfgVars, regVars, envVars, loadVars, histVars, loaded, cpc, nops, evicted,
                   toload, curPath, todoFuncs, todoKeys, curKey, todoPairs>>

\* a worker that catches what a callback raises when there is a sink to report it to
EscapesUnlessSink(cb) == cb = "raise" /\ ~pl

\* function(path) is called outside any try: what it raises leaves run()
Escapes(cb) == cb = "raise"

\* a lock taken with acquire() and given back only at the end of the block
HeldOnError == FALSE

\* with self.lock: an exception that leaves the block releases the lock
ReleasedOnError == TRUE

\* a worker that records a path whatever the watcher answered
RecordAlways(list, path, modified) == Append(list, path)

\* if self.watcher(path): ...; toload.append(path)
Record(list, path, modified) == IF modified THEN Append(list, path) ELSE list

\* for function in functions: if self.watcher(path): function(path); toload.append(path)
\* One iteration of the inner loop; the outer loop advances when functions is exhausted.
\* cb is what function(path) does when invoked, cache the value of self.loaded afterwards.
P1Step(path, function, cb, cache) ==
    /\ wpc = "phase1"
    /\ IF todoFuncs = {}
       THEN path \in todoPaths /\ function \in watched[path]
       ELSE path = curPath /\ function \in todoFuncs
    /\ IF WatcherCheck(path)
       THEN /\ changed' = WatcherAfter(path)
            /\ reported' = reported \cup {path}
            /\ called' = [called EXCEPT ![<<path, function>>] = @ + 1]
            /\ lastcall' = cb
       ELSE /\ cb = "ok"
            /\ UNCHANGED <<changed, reported, called, lastcall>>
    /\ IF ~Escapes(cb)
       THEN /\ toload' = Record(toload, path, WatcherCheck(path))
            /\ todoPaths' = todoPaths \ {path}
            /\ curPath' = path
            /\ todoFuncs' = (IF todoFuncs = {} THEN watched[path] ELSE todoFuncs) \ {function}
            /\ UNCHANGED <<lock, wpc, todoKeys, curKey, todoPairs>>
       ELSE /\ Crash
            /\ lock' = ~ReleasedOnError
    /\ loaded' = cache
    /\ UNCHANGED <<cfgVars, regVars, content, loadVars, cpc, nops, evicted,
                   answers, found, recorded, attempted, failed, logged>>

\* a worker that reloads as soon as the watcher answers
P1FuncEager(path, function, cb) ==
    P1Step(path, function, cb,
           IF WatcherCheck(path) /\ LoaderResult(path) # "bad"
           THEN Put(loaded, path, LoaderResult(path)) ELSE loaded)

P1Func(path, function, cb) == P1Step(path, function, cb, loaded)

\* end of the first with-block
P1End ==
    /\ wpc = "phase1"
    /\ todoPaths = {} /\ todoFuncs = {}
    /\ lock' = FALSE
    /\ wpc' = "lock2"
    /\ curPath' = None
    /\ UNCHANGED <<cfgVars, regVars, envVars, loadVars, histVars, loaded, cpc, nops, evicted,
                   toload, todoPaths, todoFuncs, todoKeys, curKey, todoPairs>>

\* with self.lock: (phase 2)   for key, functions in list(self.missing.items()):
WLock2 ==
    /\ wpc = "lock2"
    /\ ~lock
    /\ lock' = TRUE
    /\ wpc' = "phase2"
    /\ todoKeys' = DOMAIN missing
    /\ UNCHANGED <<cfgVars, regVars, envVars, loadVars, histVars, loaded, cpc, nops, evicted,
                   toload, todoPaths, curPath, todoFuncs, curKey, todoPairs>>

\* if path:
Truthy(res) == res = "path"

\* a resolution that leaves the pair in the registry
KeepPair(functions, pair) == functions

\* functions.remove((condition_function, function))
RemovePair(functions, pair) == functions \ {pair}

\* a phase 2 that leaves the key of an emptied set in place
NoPop(d, key) == d

\* if not functions: self.missing.pop(key)
PopIfEmpty(d, key) == IF d[key] = {} THEN Drop(d, {key}) ELSE d

\* the path a condition function answers once it finds one
FoundPath(condition_function) == IF condition_function = "c1" THEN "p1" ELSE "p2"

\* what condition_function(key) does (raise, answer None, answer its path) and, when
\* it is invoked, what function(path) does
CondOutcomes == {<<"raise", "ok">>, <<"falsy", "ok">>, <<"path", "ok">>, <<"path", "raise">>}

\* one iteration of the inner loop of phase 2; after the last pair of a key, the
\* "if not functions" that follows the inner loop; watch is the set of paths the
\* watcher watches afterwards
P2Step(key, pair, res, cb, watch) ==
    /\ wpc = "phase2"
    /\ IF todoPairs = {}
       THEN key \in todoKeys /\ pair \in missing[key]
       ELSE key = curKey /\ pair \in todoPairs
    /\ answers' = [answers EXCEPT ![<<key, pair>>] = Append(@, res)]
    /\ waited' = IF res = "falsy" THEN waited \cup {<<key, pair>>} ELSE waited
    /\ lastcall' = IF Truthy(res) THEN cb ELSE lastcall
    /\ watching' = watch
    /\ LET rest == (IF todoPairs = {} THEN missing[key] ELSE todoPairs) \ {pair}
           raises == \/ res = "raise" /\ exception_raises
                     \/ Truthy(res) /\ Escapes(cb)
           after == IF Truthy(res)
                    THEN [missing EXCEPT ![key] = RemovePair(@, pair)]
                    ELSE missing
       IN /\ found' = IF Truthy(res)
                      THEN [found EXCEPT ![<<key, pair>>] = Append(@, FoundPath(pair[1]))]
                      ELSE found
          /\ logged' = IF res = "raise" /\ ~exception_raises THEN logged + 1 ELSE logged
          /\ IF raises
             THEN /\ Crash /\ lock' = ~ReleasedOnError
                  /\ UNCHANGED missing
             ELSE /\ toload' = Record(toload, FoundPath(pair[1]), Truthy(res))
                  /\ missing' = IF rest = {} THEN PopIfEmpty(after, key) ELSE after
                  /\ todoKeys' = todoKeys \ {key}
                  /\ curKey' = key
                  /\ todoPairs' = rest
                  /\ UNCHANGED <<lock, wpc, todoPaths, curPath, todoFuncs>>
    /\ UNCHANGED <<cfgVars, watched, envVars, loadVars, loaded, cpc, nops, evicted,
                   reported, called, recorded, attempted, failed>>

\* a phase 2 that tells the watcher to watch the path a condition function answered
P2PairWatching(key, pair, res, cb) ==
    P2Step(key, pair, res, cb,
           IF Truthy(res) THEN watching \cup {FoundPath(pair[1])} ELSE watching)

P2Pair(key, pair, res, cb) == P2Step(key, pair, res, cb, watching)

\* end of the second with-block; for path in toload:
P2End ==
    /\ wpc = "phase2"
    /\ todoPairs = {} /\ todoKeys = {}
    /\ lock' = FALSE
    /\ wpc' = "reload"
    /\ curKey' = None
    /\ reported' = {} /\ called' = NoCalls /\ answers' = NoAnswers /\ found' = NoFound
    /\ logged' = 0
    /\ recorded' = Range(toload)
    /\ waited' = {e \in waited : PendingIn(missing, e)}
    /\ UNCHANGED <<cfgVars, watched, missing, watching, envVars, loadVars, loaded, cpc,
                   nops, evicted, toload, todoPaths, curPath, todoFuncs, todoKeys, todoPairs,
                   attempted, failed, lastcall>>

\* try: self.loaded[path] = self._load(path)
\* except Exception as e: self.exception(...)
Reload ==
    /\ wpc = "reload"
    /\ toload # <<>>
    /\ attempted' = attempted \cup {Head(toload)}
    /\ IF LoaderResult(Head(toload)) = "bad"
       THEN /\ failed' = failed \cup {Head(toload)}
            /\ UNCHANGED loaded
            /\ IF exception_raises
               THEN /\ Crash
                    /\ UNCHANGED logged
               ELSE /\ logged' = logged + 1
                    /\ toload' = Tail(toload)
                    /\ UNCHANGED <<wpc, iterVars>>
       ELSE /\ loaded' = Put(loaded, Head(toload), LoaderResult(Head(toload)))
            /\ toload' = Tail(toload)
            /\ UNCHANGED <<wpc, iterVars, failed, logged>>
    /\ UNCHANGED <<cfgVars, regVars, envVars, loadVars, lock, cpc, nops, evicted,
                   reported, called, answers, found, recorded, lastcall>>

\* the for-loop over toload is exhausted
ReloadEnd ==
    /\ wpc = "reload"
    /\ toload = <<>>
    /\ wpc' = "wait"
    /\ recorded' = {} /\ attempted' = {} /\ failed' = {} /\ logged' = 0
    /\ UNCHANGED <<cfgVars, regVars, envVars, loadVars, lock, loaded, cpc, nops, evicted,
                   toload, iterVars, reported, called, answers, found, lastcall>>

\* self.shutdown_event.wait(self.interval): returns when the event is set or, with a
\* timeout (wait(None) has none), when it elapses
Wait ==
    /\ wpc = "wait"
    /\ interval \/ shutdown_event
    /\ wpc' = "top"
    /\ UNCHANGED <<cfgVars, regVars, envVars, loadVars, histVars, lock, loaded, cpc, nops,
                   evicted, toload, iterVars>>

\* ------------------------------------------------------------ specification
Worker ==
    \/ Start \/ WTop \/ WLock1 \/ P1End \/ WLock2 \/ P2End \/ Reload \/ ReloadEnd \/ Wait
    \/ \E path \in Paths, function \in Funcs, cb \in {"ok", "raise"} : P1Func(path, function, cb)
    \/ \E key \in Keys, pair \in Pairs, o \in CondOutcomes : P2Pair(key, pair, o[1], o[2])

CallerStep ==
    \/ \E t \in Callers, f \in Funcs, p \in Paths : register(t, f, p)
    \/ \E t \in Callers, c \in Conds, g \in MissingFuncs, k \in Keys : register_missing(t, c, g, k)
    \/ \E t \in Callers, r \in (SUBSET Funcs) \ {{}} : unregister_functions(t, r)
    \/ \E t \in Callers, r \in (SUBSET Pairs) \ {{}} : unregister_missing(t, r)

Next ==
    \/ set_pl
    \/ set_interval
    \/ SetShutdown
    \/ \E p \in Paths, c \in Contents : FileChange(p, c)
    \/ \E t \in Callers, op \in RegOps : Acquire(t, op)
    \/ CallerStep
    \/ \E p \in Paths : LoadLookup(p)
    \/ LoadStore
    \/ LoadReturn
    \/ Worker

Spec == Init /\ [][Next]_vars

\* The same program with fewer calls; every thread that can take a step eventually
\* takes one (a started thread runs; a caller inside a with-block leaves it).
FairNext == Next /\ nops' <= MaxFairOps

FairSpec == Init /\ [][FairNext]_vars /\ WF_vars(Worker) /\ WF_vars(CallerStep)

\* ------------------------------------------------ callbacks that call back
\* a lock that the thread holding it can take again (RLock)
ReentrantLock == TRUE

\* self.lock = Lock(): the thread that holds it cannot take it again
reentrant == FALSE

\* function(path) of phase 1 calls register, register_missing, unregister_functions
\* or unregister_missing of this ConfigLoader: its "with self.lock" waits for the
\* lock that run() holds
P1Reenter(path, function) ==
    /\ wpc = "phase1"
    /\ IF todoFuncs = {}
       THEN path \in todoPaths /\ function \in watched[path]
       ELSE path = curPath /\ function \in todoFuncs
    /\ WatcherCheck(path)
    /\ changed' = WatcherAfter(path)
    /\ reported' = reported \cup {path}
    /\ called' = [called EXCEPT ![<<path, function>>] = @ + 1]
    /\ lastcall' = "reenter"
    /\ IF reentrant
       THEN /\ toload' = Append(toload, path)
            /\ todoPaths' = todoPaths \ {path}
            /\ curPath' = path
            /\ todoFuncs' = (IF todoFuncs = {} THEN watched[path] ELSE todoFuncs) \ {function}
            /\ UNCHANGED wpc
       ELSE /\ wpc' = "blocked"
            /\ UNCHANGED <<toload, todoPaths, curPath, todoFuncs>>
    /\ UNCHANGED <<cfgVars, regVars, content, loadVars, lock, loaded, cpc, nops, evicted,
                   todoKeys, curKey, todoPairs, answers, found, recorded, attempted, failed,
                   logged>>

\* condition_function(key) of phase 2 (by = "condition") or, after it answered a path
\* and the path was appended to toload, function(path) (by = "callback") calls the
\* registration API of this ConfigLoader
P2Reenter(key, pair, by) ==
    /\ wpc = "phase2"
    /\ IF todoPairs = {}
       THEN key \in todoKeys /\ pair \in missing[key]
       ELSE key = curKey /\ pair \in todoPairs
    /\ lastcall' = "reenter"
    /\ answers' = IF by = "callback"
                  THEN [answers EXCEPT ![<<key, pair>>] = Append(@, "path")]
                  ELSE answers
    /\ found' = IF by = "callback"
                THEN [found EXCEPT ![<<key, pair>>] = Append(@, FoundPath(pair[1]))]
                ELSE found
    /\ toload' = Record(toload, FoundPath(pair[1]), by = "callback")
    /\ IF reentrant
       THEN /\ todoKeys' = todoKeys \ {key}
            /\ curKey' = key
            /\ todoPairs' = (IF todoPairs = {} THEN missing[key] ELSE todoPairs) \ {pair}
            /\ UNCHANGED wpc
       ELSE /\ wpc' = "blocked"
            /\ UNCHANGED <<todoKeys, curKey, todoPairs>>
    /\ UNCHANGED <<cfgVars, regVars, envVars, loadVars, lock, loaded, cpc, nops, evicted,
                   todoPaths, curPath, todoFuncs, reported, called,
                   recorded, attempted, failed, logged>>

Reenter ==
    \/ \E path \in Paths, function \in Funcs : P1Reenter(path, function)
    \/ \E key \in Keys, pair \in Pairs, by \in {"condition", "callback"} :
           P2Reenter(key, pair, by)

\* The program with callbacks and condition functions that may call the registration
\* API from inside the worker's with-block.
ReentryNext == (Next \/ Reenter) /\ nops' <= MaxFairOps

ReentrySpec == Init /\ [][ReentryNext]_vars

\* ------------------------------------------------------------------ claims
\* phase 1 has gone through every function of every watched path
EndOfPhase1 == wpc = "phase1" /\ todoPaths = {} /\ todoFuncs = {}

\* C1: in a cycle in which the watcher reports a change for p, every callback
\* registered on p has been invoked exactly once when phase 1 ends.
C1_EveryCallbackInvokedOnce ==
    EndOfPhase1 => \A p \in reported : \A f \in watched[p] : called[<<p, f>>] = 1

\* C2: a path whose last callback was unregistered is in neither the registry nor the
\* cache until a caller calls load or register for it again.
C2_UnregisteredPathStaysAbsent ==
    \A p \in evicted : p \notin DOMAIN watched /\ p \notin DOMAIN loaded

\* a step of the worker thread
WorkerStep == workVars' # workVars \/ histVars' # histVars

\* in this step a condition function was called for entry e and did res
Answered(e, res) == answers'[e] = Append(answers[e], res)

\* within a cycle: a condition function is called at most once per pair; the callback
\* is invoked, once and with the path answered, exactly when the answer is a path, and
\* the pair is then out of the registry; a pair that answered falsy is still pending
C3_Invoked ==
    \A e \in Entries :
        /\ Len(answers[e]) <= 1
        /\ found[e] = IF answers[e] = <<"path">> THEN <<FoundPath(e[2][1])>> ELSE <<>>
        /\ (wpc = "phase2" /\ found[e] # <<>>) => ~PendingIn(missing, e)
        /\ (wpc = "phase2" /\ answers[e] = <<"falsy">>) =>
              (e \in waited /\ PendingIn(missing, e))

\* a condition function is called only for a pending pair, and a pair becomes pending
\* only inside register_missing
C3_Step ==
    /\ answers' # answers =>
          \A e \in Entries : Len(answers'[e]) > Len(answers[e]) => PendingIn(missing, e)
    /\ missing' # missing =>
          \A e \in Entries :
              (~PendingIn(missing, e) /\ PendingIn(missing', e)) => cpc["t2"] = "register_missing"

\* C3: the callback of a pending pair is not invoked in the cycles in which its
\* condition function answers falsy; in the cycle in which it answers a path the
\* callback is invoked once, with that path, and the pair leaves the registry; after
\* that neither function is called for the pair unless register_missing adds it again.
C3_ResolvedOnce == []C3_Invoked /\ [][C3_Step]_vars

\* a pair that answered falsy in an earlier cycle has now answered a path
C3_Witness ==
    /\ wpc = "phase2"
    /\ \E e \in waited :
        /\ answers[e] = <<"path">> /\ found[e] = <<FoundPath(e[2][1])>>
        /\ ~PendingIn(missing, e)

\* C4: when a condition function raises, the loop goes on with the other pairs of the
\* phase and the pair stays pending.
C4_RaisingConditionIsolated ==
    [][\A e \in Entries :
          Answered(e, "raise") => (wpc' = "phase2" /\ PendingIn(missing', e))]_vars

\* C5: a load() called while no interval is configured finds the cache empty and
\* invokes the loader.
C5_NoIntervalNoCache ==
    [][(~interval /\ lpc = "idle" /\ lpc' # "idle") =>
          (loaded = EmptyDict /\ lpc' \in {"store", "raised"})]_vars

\* the two steps of load() with an interval configured: the lookup (a hit takes the
\* entry and touches nothing else; a miss calls the loader) and the store
C6_Step ==
    /\ (interval /\ lpc = "idle" /\ lpc' # "idle") =>
          IF lpath' \in DOMAIN loaded
          THEN /\ lpc' = "hit" /\ lr' = loaded[lpath']
               /\ UNCHANGED <<changed, watching, lock, cpc, loaded>>
          ELSE /\ lpc' = IF LoaderResult(lpath') = "bad" THEN "raised" ELSE "store"
               /\ lpc' = "store" => lr' = LoaderResult(lpath')
    /\ (interval /\ lpc = "store" /\ lpc' = "idle") =>
          (lpath \in DOMAIN loaded' /\ loaded'[lpath] = lr)

\* C6: with an interval configured, load(p) returns the cache entry of p when there
\* is one, touching neither the watcher, the lock nor the cache; otherwise it calls
\* the loader and, unless that raises, stores the value it returns as the entry of p.
C6_LoadUsesCache == [][C6_Step]_vars

\* a second load(p) answered from the entry the first one stored (the worker never
\* ran), while a caller holds the registry lock
C6_Witness ==
    /\ interval /\ wpc = "idle"
    /\ lpc = "hit" /\ lr = loaded[lpath]
    /\ lock

\* with a sink: a failed reload is logged and the loop goes on; the loop is left only
\* for the wait, with nothing left to reload
C7_Step ==
    /\ (pl /\ wpc = "reload" /\ toload # <<>> /\ toload' # toload
          /\ LoaderResult(Head(toload)) = "bad") =>
          /\ logged' = logged + 1
          /\ loaded' = loaded
          /\ toload' = Tail(toload)
          /\ wpc' = "reload"
    /\ (pl /\ wpc = "reload" /\ wpc' # "reload") =>
          (wpc' = "wait" /\ toload = <<>> /\ attempted = recorded)

\* in the reload loop, the recorded paths are those attempted and those still to come
AllRecordedAttempted == wpc = "reload" => attempted \cup Range(toload) = recorded

\* C7: with a sink attached, a reload that fails is logged, leaves the cache as it
\* was and is followed by the rest of toload; every recorded path is attempted and
\* the worker then waits.
C7_ReloadFailureIsolated == []AllRecordedAttempted /\ [][C7_Step]_vars

\* two paths were recorded, one reload failed and was logged, the other one was done
C7_Witness ==
    /\ pl /\ wpc = "reload" /\ toload = <<>>
    /\ Cardinality(recorded) = 2 /\ attempted = recorded
    /\ Cardinality(failed) = 1 /\ logged = 1
    /\ \E p \in attempted \ failed : p \in DOMAIN loaded /\ loaded[p] = content[p]

\* without a sink: a raising condition function or reload ends run(), for good
C8_Step ==
    /\ (~pl /\ answers' # answers /\ \E e \in Entries : Answered(e, "raise")) =>
          wpc' = "crashed"
    /\ (~pl /\ failed' # failed /\ failed' # {}) => wpc' = "crashed"
    /\ wpc = "crashed" => (wpc' = "crashed" /\ ~WorkerStep)

FoundPaths == UNION {Range(found[e]) : e \in Entries}

\* in phases 1 and 2 nothing was reloaded yet, and toload holds only paths whose
\* callbacks were invoked
C9_Before ==
    wpc \in {"lock1", "phase1", "lock2", "phase2"} =>
        /\ attempted = {} /\ recorded = {}
        /\ Range(toload) \subseteq reported \cup FoundPaths

\* the worker leaves the cache alone in phases 1 and 2, and reloads toload in order
C9_Step ==
    /\ (wpc \in {"lock1", "phase1", "lock2", "phase2"} /\ WorkerStep) => loaded' = loaded
    /\ (wpc = "phase2" /\ wpc' = "reload") => (recorded' = Range(toload) /\ toload' = toload)
    /\ (wpc = "reload" /\ toload' # toload /\ wpc' # "crashed") =>
          (toload' = Tail(toload) /\ attempted' = attempted \cup {Head(toload)})

\* C9: while callbacks run (phases 1 and 2) the worker has reloaded nothing in this
\* cycle and leaves the cache alone; what it reloads afterwards are the paths whose
\* callbacks were invoked.
C9_CallbackBeforeReload == []C9_Before /\ []AllRecordedAttempted /\ [][C9_Step]_vars

\* a callback has run for a changed path whose cache entry still holds the old value
C9_Witness ==
    /\ wpc = "phase1"
    /\ \E p \in reported :
        /\ \E f \in Funcs : called[<<p, f>>] = 1
        /\ p \in DOMAIN loaded /\ content[p] = "v2" /\ loaded[p] = "v1"

\* run() has returned or was left by an exception
Ended == wpc \in {"stopped", "crashed"}

\* a cycle begins only with an interval and no event; before the thread runs, at the
\* top of the loop, in the wait and after run() returned the worker calls nothing
C10_Step ==
    /\ (wpc = "top" /\ wpc' # "top") =>
          wpc' = IF interval /\ ~shutdown_event THEN "lock1" ELSE "stopped"
    /\ wpc \in {"idle", "top", "wait"} => histVars' = histVars
    /\ (wpc = "wait" /\ wpc' # "wait") => (wpc' = "top" /\ (interval \/ shutdown_event))
    /\ wpc = "stopped" => (wpc' = "stopped" /\ ~WorkerStep)

\* C10: once the event is set the worker ends; it leaves the top of the loop for a
\* new cycle only with an interval and no event, finishes the reloads of a cycle it
\* has begun, and does nothing once run() has returned.
C10_ShutdownStops ==
    /\ shutdown_event ~> Ended
    /\ []AllRecordedAttempted
    /\ [][C10_Step]_vars

\* run() has returned after the event was set, and the one change there was has been
\* reloaded (the two operations were a register and a file change, so no load())
C10_Witness ==
    /\ wpc = "stopped" /\ shutdown_event /\ interval
    /\ nops = 2
    /\ \E p \in DOMAIN watched : p \in DOMAIN loaded /\ loaded[p] = "v2" /\ content[p] = "v2"

\* how many times x is in the list
Count(list, x) == Cardinality({i \in DOMAIN list : list[i] = x})

\* in phase 1 a callback is invoked at most once, and only for a path the watcher
\* reported; when the phase ends, the only callback of a path has been invoked, and
\* the path recorded for reload, once if the watcher reported it and not at all if not
C11_Phase1 ==
    wpc = "phase1" =>
        /\ \A p \in Paths, f \in Funcs :
              called[<<p, f>>] <= 1 /\ (called[<<p, f>>] = 1 => p \in reported)
        /\ \A p \in Paths : p \notin reported => Count(toload, p) = 0
        /\ \A p \in DOMAIN watched : \A f \in watched[p] :
              watched[p] = {f} =>
                  /\ Count(toload, p) = called[<<p, f>>]
                  /\ EndOfPhase1 => called[<<p, f>>] = IF p \in reported THEN 1 ELSE 0

\* a cycle with no change reported and no pair resolved goes to the reload loop with
\* nothing to reload; the worker changes the cache only by reloading a recorded path
C11_Step ==
    /\ (wpc = "phase2" /\ wpc' = "reload" /\ reported = {} /\ FoundPaths = {}) =>
          (toload = <<>> /\ recorded' = {})
    /\ (WorkerStep /\ (loaded' # loaded \/ ~(attempted' \subseteq attempted))) =>
          (wpc = "reload" /\ toload # <<>> /\ Head(toload) \in recorded)

\* C11: a change callback is invoked in a cycle only if the watcher reported a change
\* for its path in that cycle; the only callback of a path is invoked once, and the
\* path reloaded once, in a cycle in which the watcher answers true, and not at all in
\* one in which it answers false; a cycle with no change and no pair resolved calls no
\* loader and leaves the cache as it is.
C11_CallbackOnlyOnChange == []C11_Phase1 /\ []AllRecordedAttempted /\ [][C11_Step]_vars

\* the end of phase 1 with two watched paths of one callback each: one changed, its
\* callback ran and it is to be reloaded; the other did not and was left alone
C11_Witness ==
    /\ EndOfPhase1
    /\ \E p, q \in DOMAIN watched :
        /\ Cardinality(watched[p]) = 1 /\ Cardinality(watched[q]) = 1
        /\ p \in reported /\ \A f \in watched[p] : called[<<p, f>>] = 1
        /\ q \notin reported /\ \A f \in watched[q] : called[<<q, f>>] = 0
        /\ toload = <<p>>

\* C12: whenever the registry lock is free, every path that is a key of the registry
\* has at least one callback (no path is mapped to an empty set).
C12_RegistryKeysNonEmpty == ~lock => \A p \in DOMAIN watched : watched[p] # {}

\* one path was unregistered for good and is gone from the registry, another one is
\* still registered
C12_Witness ==
    /\ ~lock /\ evicted # {} /\ watched # EmptyDict
    /\ \A p \in evicted : p \notin DOMAIN watched

\* whenever the registry lock is free, every key of self.missing has a pair
C13_KeysNonEmpty == ~lock => \A k \in DOMAIN missing : missing[k] # {}

\* a pair whose callback has returned in this phase is out of the registry from the
\* step of its resolution on, whether the phase ends or is abandoned
C13_Step ==
    wpc = "phase2" =>
        \A e \in Entries :
            /\ found[e] # <<>> => ~PendingIn(missing', e)
            /\ (found'[e] # found[e] /\ wpc' = "phase2") => ~PendingIn(missing', e)

\* C13: whenever the registry lock is free, every key of the missing registry has at
\* least one pair, and a pair whose condition function answered a path and whose
\* callback returned is not in it, also when the worker abandons the cycle.
C13_MissingKeysNonEmpty == []C13_KeysNonEmpty /\ [][C13_Step]_vars

\* the worker abandoned phase 2 after it had resolved one pair of a key; the pair is
\* gone and another pair of the same key, which was called too, is still there
C13_Witness ==
    /\ wpc = "crashed" /\ ~lock
    /\ \E e, o \in Entries :
        /\ e[1] = o[1]
        /\ found[e] # <<>> /\ ~PendingIn(missing, e)
        /\ answers[o] # <<>> /\ PendingIn(missing, o)

\* the caller threads inside a with-block of the registration API
Inside == {t \in Callers : cpc[t] # "idle"}

\* the lock is held exactly when one thread is inside a critical section, and never
\* more than one is: the worker is inside in phases 1 and 2 only
C14_Exclusive ==
    Cardinality(Inside) + (IF wpc \in {"phase1", "phase2"} THEN 1 ELSE 0)
        = IF lock THEN 1 ELSE 0

\* the worker takes the lock for each phase and iterates the registry as it is then;
\* while it is in a phase no caller enters or leaves, self.watched does not change and
\* self.missing changes only by the removals of phase 2; phase 1 ends with the lock
\* released
C14_Step ==
    /\ (wpc = "lock1" /\ wpc' = "phase1") => (~lock /\ lock' /\ todoPaths' = DOMAIN watched)
    /\ (wpc = "lock2" /\ wpc' = "phase2") => (~lock /\ lock' /\ todoKeys' = DOMAIN missing)
    /\ (wpc \in {"phase1", "phase2"} /\ wpc' = wpc) =>
          /\ cpc' = cpc /\ lock' /\ watched' = watched
          /\ wpc = "phase1" => missing' = missing
          /\ \A k \in DOMAIN missing' : k \in DOMAIN missing /\ missing'[k] \subseteq missing[k]
    /\ (wpc = "phase1" /\ wpc' # "phase1") => (~lock' /\ wpc' \in {"lock2", "crashed"})
    /\ (wpc = "phase2" /\ wpc' # "phase2") => (~lock' /\ wpc' \in {"reload", "crashed"})

\* C14: no two of register, register_missing, unregister_functions, unregister_missing,
\* phase 1 and phase 2 are inside their critical section together; a phase iterates the
\* registry as it was when the phase took the lock; the worker takes the lock for each
\* of the two phases and does not hold it in the reload loop and the wait.
C14_MutualExclusion == []C14_Exclusive /\ [][C14_Step]_vars

\* a caller is inside register between the worker's two phases, after a phase 1 that
\* recorded a path
C14_Witness ==
    /\ wpc = "lock2" /\ toload # <<>>
    /\ lock /\ cpc["t1"] = "register"

\* the watcher's set of paths only grows, and only register adds to it: the path it
\* is called with, which it also puts into the registry; a register for a function
\* and path already registered changes neither
C15_Step ==
    /\ watching \subseteq watching'
    /\ (cpc["t1"] = "register" /\ cpc'["t1"] = "idle") =>
          \E p \in Paths :
              /\ watching' = watching \cup {p}
              /\ p \in DOMAIN watched' /\ watched'[p] # {}
              /\ \A q \in DOMAIN watched : q \in DOMAIN watched' /\ watched[q] \subseteq watched'[q]
              /\ (p \in DOMAIN watched /\ watched'[p] = watched[p]) =>
                    (watched' = watched /\ watching' = watching)
    /\ watching' # watching => (cpc["t1"] = "register" /\ cpc'["t1"] = "idle")

\* every registered path is watched
C15_Watched == DOMAIN watched \subseteq watching

\* C15: the set of paths the watcher was told to watch only grows: every register
\* tells it to watch the path (a repeated register leaves registry and watcher as they
\* are), no operation retracts a watch, and nothing but register calls watch.
C15_WatchOnlyGrows == []C15_Watched /\ [][C15_Step]_vars

\* a path whose last callback was unregistered is still watched: a later change of the
\* file is noted by the watcher
C15_Witness ==
    \E p \in evicted : p \notin DOMAIN watched /\ p \in watching /\ p \in changed

\* the reload loop stores what the loader returned for a recorded path
ReloadWrites ==
    /\ wpc = "reload" /\ toload # <<>> /\ Head(toload) \in recorded
    /\ LoaderResult(Head(toload)) # "bad"
    /\ loaded' = Put(loaded, Head(toload), LoaderResult(Head(toload)))

\* a load() that missed stores, with an interval configured, what the loader returned
LoadWrites == lpc = "store" /\ interval /\ loaded' = Put(loaded, lpath, lr)

\* unregister_functions drops the entries of the paths it removed from the registry
UnregisterEvicts ==
    /\ cpc["t1"] = "unregister_functions" /\ cpc'["t1"] = "idle"
    /\ loaded' = Drop(loaded, (DOMAIN watched) \ DOMAIN watched')

\* a step that changes the cache is one of the three; the other three registration
\* operations, a load() that hits or fails, a reload that fails, and the worker
\* outside its reload loop leave it as it is
C16_Step ==
    /\ loaded' # loaded => (ReloadWrites \/ LoadWrites \/ UnregisterEvicts)
    /\ (\E t \in Callers : cpc[t] \notin {"idle", "unregister_functions"} /\ cpc'[t] = "idle")
          => loaded' = loaded
    /\ (lpc \in {"idle", "hit", "raised"} /\ lpc' # lpc) => loaded' = loaded
    /\ (wpc = "reload" /\ ~(failed' \subseteq failed)) => loaded' = loaded
    /\ (wpc # "reload" /\ WorkerStep) => loaded' = loaded
    /\ (cpc["t1"] = "unregister_functions" /\ cpc'["t1"] = "idle") =>
          \A p \in DOMAIN watched' :
              (p \in DOMAIN loaded <=> p \in DOMAIN loaded')
                  /\ (p \in DOMAIN loaded => loaded'[p] = loaded[p])

\* C16: the cache changes only by the reload of a path recorded in the cycle, by a
\* load() miss with an interval configured, and by unregister_functions evicting the
\* paths it removed; every other operation and phase leaves every entry as it is, and
\* unregister_functions keeps the entry of a path that still has a callback.
C16_CacheWriters == [][C16_Step]_vars

\* the cache holds an entry the reload loop of this cycle wrote and an older entry of
\* another path, which is not registered
C16_Witness ==
    /\ wpc = "reload"
    /\ \E p \in attempted \ failed : p \in DOMAIN loaded
    /\ \E q \in DOMAIN loaded : q \notin recorded /\ q \notin DOMAIN watched

\* a worker that has ended does not hold the lock: if the lock is held, a caller has it
C17_NotHeldByEnded == (Ended /\ lock) => Inside # {}

\* the step that ends the worker from inside a phase releases the lock; one that ends
\* it from elsewhere does not touch it
C17_Step ==
    (~Ended /\ wpc' \in {"stopped", "crashed"}) =>
        IF wpc \in {"phase1", "phase2"} THEN ~lock' ELSE lock' = lock

\* C17: a worker that has ended, by the event, by an unset interval or by an exception
\* that left phase 1 or phase 2, does not hold the registry lock; whoever holds the
\* lock gives it back (a caller by leaving its registration call), so the lock is free
\* again and again for the calls that wait for it.
C17_LockReleasedAtEnd ==
    /\ []C17_NotHeldByEnded
    /\ [][C17_Step]_vars
    /\ lock ~> (~lock /\ Inside = {})

\* a callback's exception ended the worker inside a phase, and a caller has taken the
\* lock since
C17_Witness ==
    /\ wpc = "crashed" /\ lastcall = "raise"
    /\ lock /\ Inside # {}

\* after a callback has raised, run() is over and nothing of the cycle was reloaded
C18_AfterRaise ==
    lastcall = "raise" =>
        (wpc = "crashed" /\ toload = <<>> /\ recorded = {} /\ attempted = {})

\* the step in which a callback raises ends run() with nothing passed to the sink and
\* the registries and the cache as they were: in phase 2 the pair whose callback was
\* invoked is still pending
C18_Step ==
    /\ (lastcall # "raise" /\ lastcall' = "raise") =>
          /\ wpc \in {"phase1", "phase2"} /\ wpc' = "crashed"
          /\ logged' = logged /\ loaded' = loaded
          /\ watched' = watched /\ missing' = missing
          /\ wpc = "phase2" =>
                \E e \in Entries : found'[e] # found[e] /\ PendingIn(missing', e)
    /\ wpc = "crashed" => (wpc' = "crashed" /\ ~WorkerStep)

\* C18: an exception raised by a change callback (phase 1) or by the callback of a
\* resolved pair (phase 2) is neither caught nor reported, with or without a sink: it
\* ends the worker loop, nothing of that cycle is reloaded, and in phase 2 the pair
\* stays in the missing registry.
C18_CallbackErrorsNotIsolated == []C18_AfterRaise /\ [][C18_Step]_vars

\* with a sink attached, the callback of a resolved pair raised: run() is over and the
\* pair is still pending
C18_Witness ==
    /\ pl /\ wpc = "crashed" /\ lastcall = "raise" /\ logged = 0
    /\ \E e \in Entries : found[e] # <<>> /\ PendingIn(missing, e)

\* after a callback or condition function has called the registration API the worker
\* is stuck in its phase with the lock, no caller is inside a registration call, and a
\* load() can start and go on
C19_Stuck ==
    lastcall = "reenter" =>
        /\ wpc = "blocked" /\ lock /\ Inside = {}
        /\ ~ENABLED (\E t \in Callers, op \in RegOps : Acquire(t, op))
        /\ lpc # "idle" => ENABLED (LoadStore \/ LoadReturn)
        /\ (lpc = "idle" /\ nops < MaxOps) => ENABLED (\E p \in Paths : LoadLookup(p))

\* the worker stays stuck: it takes no step, the lock stays held, no registration call
\* gets in and the registries stay as they are
C19_Step ==
    wpc = "blocked" =>
        /\ wpc' = "blocked" /\ ~WorkerStep
        /\ lock' /\ cpc' = cpc
        /\ watched' = watched /\ missing' = missing

\* C19: when a callback or condition function run by the worker calls the registration
\* API of the same ConfigLoader, the call never gets the lock, the worker stays in
\* that phase for good, no registration call of any thread gets in any more, and
\* load() still goes through.
C19_ReentryDeadlocks == []C19_Stuck /\ [][C19_Step]_vars

\* the worker is stuck and a load() that missed has got its value from the loader
C19_Witness ==
    /\ wpc = "blocked" /\ lastcall = "reenter" /\ lock
    /\ lpc = "store" /\ nops = MaxFairOps

\* a worker step of phase 2 or of the reload loop leaves registry and watcher as they
\* are, and the path a condition function answers goes to the end of toload; what the
\* reload loop reloads was reported by the watcher for a registered path or answered by
\* a condition function in this cycle; unregister_functions leaves the cache entries of
\* paths outside the registry as they are
C20_Step ==
    /\ (wpc \in {"phase2", "reload"} /\ (watched' # watched \/ watching' # watching)) =>
          ~WorkerStep
    /\ (wpc = "phase2" /\ wpc' = "phase2" /\ found' # found) =>
          \E e \in Entries :
              /\ found'[e] = Append(found[e], FoundPath(e[2][1]))
              /\ toload' = Append(toload, FoundPath(e[2][1]))
              /\ FoundPath(e[2][1]) \in DOMAIN watched' <=> FoundPath(e[2][1]) \in DOMAIN watched
    /\ reported' # reported => (reported' \ reported) \subseteq DOMAIN watched
    /\ (wpc = "phase2" /\ wpc' = "reload") => recorded' \subseteq reported \cup FoundPaths
    /\ (wpc = "reload" /\ loaded' # loaded /\ WorkerStep) => ReloadWrites
    /\ (cpc["t1"] = "unregister_functions" /\ cpc'["t1"] = "idle") =>
          \A p \in (DOMAIN loaded) \ DOMAIN watched :
              p \in DOMAIN loaded' /\ loaded'[p] = loaded[p]

\* a path the worker reloads without the watcher watching it was answered by a
\* condition function in this cycle
C20_Reloaded ==
    (wpc \in {"phase1", "lock2", "phase2"} /\ toload # <<>>) =>
        \A p \in Range(toload) : p \notin watching => p \in FoundPaths

\* C20: resolving a pending pair does not make the path watched: the worker invokes the
\* callback with the path and reloads it in that cycle, adds no registry entry and does
\* not tell the watcher to watch it; later cycles reload only paths of the registry
\* that the watcher reported or paths answered anew, and unregister_functions evicts
\* only paths of the registry.
C20_ResolvedPathNotWatched == []C20_Reloaded /\ [][C20_Step]_vars

\* the reload loop has loaded a path that is neither in the registry nor watched
C20_Witness ==
    /\ wpc = "reload"
    /\ \E p \in attempted :
           /\ p \in recorded /\ p \in DOMAIN loaded /\ loaded[p] = content[p]
           /\ p \notin watching /\ p \notin DOMAIN watched

====
